---- MODULE Spec2Model ----
(***************************************************************************)
(* Model of the two-phase chatbot of Part2 (app/routes.py, app/utils.py,   *)
(* app/frontend.py): the field-collection dialogue, the answer_query       *)
(* endpoint, the nearest-match retrieval and the chunking of texts; and of *)
(* the record comparison and the OCR clean-up of Part1 (utils.py,          *)
(* azure_ocr.py).                                                          *)
(*                                                                         *)
(* Python strings are modelled as sequences of one-character strings, so   *)
(* that strip(), lower(), isalpha(), int() and the regular expressions are *)
(* computed, not assumed.  Python dicts are functions whose DOMAIN is the  *)
(* set of keys present.                                                    *)
(***************************************************************************)
EXTENDS Integers, Sequences, FiniteSets, TLC

(* ------------------------------------------------------------------ *)
(* Characters and Python string methods                                *)
(* ------------------------------------------------------------------ *)

Digits == {"0", "1", "2", "3", "4", "5", "6", "7", "8", "9"}

\* A decimal digit of another script (ARABIC-INDIC DIGIT THREE), written by
\* its name: \d of a str pattern, int() and str.isdigit() take the decimal
\* digits of every script.
OtherDigits == {"arabic_indic_3"}

DecimalDigits == Digits \cup OtherDigits

UpperCase == <<"A", "B", "C", "D", "E", "F", "G", "H", "I", "J", "K", "L", "M",
               "N", "O", "P", "Q", "R", "S", "T", "U", "V", "W", "X", "Y", "Z">>

LowerCase == <<"a", "b", "c", "d", "e", "f", "g", "h", "i", "j", "k", "l", "m",
               "n", "o", "p", "q", "r", "s", "t", "u", "v", "w", "x", "y", "z">>

\* The Hebrew letters of the enumerated names, written by their names.
HebrewLetters == {"alef", "bet", "he", "vav", "zayin", "het", "yod", "kaf",
                  "lamed", "mem", "nun", "samekh", "qof", "resh", "tav", "dalet", "pe_final"}

Letters == {UpperCase[i] : i \in 1..26} \cup {LowerCase[i] : i \in 1..26}
             \cup HebrewLetters

Whitespace == {" ", "\t", "\n"}

\* str.lower() on one character.
LowerChar(c) ==
    IF \E i \in 1..26 : UpperCase[i] = c
    THEN LowerCase[CHOOSE i \in 1..26 : UpperCase[i] = c]
    ELSE c

\* str.lower()
Lower(s) == [i \in 1..Len(s) |-> LowerChar(s[i])]

\* str.strip(): drops leading and trailing whitespace.
Strip(s) ==
    IF \A i \in 1..Len(s) : s[i] \in Whitespace
    THEN << >>
    ELSE LET first == CHOOSE i \in 1..Len(s) :
                         /\ s[i] \notin Whitespace
                         /\ \A j \in 1..(i - 1) : s[j] \in Whitespace
             last  == CHOOSE i \in 1..Len(s) :
                         /\ s[i] \notin Whitespace
                         /\ \A j \in (i + 1)..Len(s) : s[j] \in Whitespace
         IN  SubSeq(s, first, last)

\* str.isalpha(): non-empty and every character a letter.
IsAlpha(s) == Len(s) > 0 /\ \A i \in 1..Len(s) : s[i] \in Letters

\* re.match(r"^\d{9}$", s): nine decimal digits, "$" also matching before
\* one trailing newline.
MatchNineDigits(s) ==
    /\ Len(s) \in {9, 10}
    /\ \A i \in 1..9 : s[i] \in DecimalDigits
    /\ Len(s) = 10 => s[10] = "\n"

DigitValue(c) ==
    CASE c = "0" -> 0 [] c = "1" -> 1 [] c = "2" -> 2 [] c = "3" -> 3
      [] c = "4" -> 4 [] c = "5" -> 5 [] c = "6" -> 6 [] c = "7" -> 7
      [] c = "8" -> 8 [] c = "9" -> 9 [] c = "arabic_indic_3" -> 3

RECURSIVE DecimalValue(_)
\* Value of a sequence of digits and underscores, underscores skipped.
DecimalValue(s) ==
    IF Len(s) = 0 THEN 0
    ELSE IF s[Len(s)] = "_" THEN DecimalValue(SubSeq(s, 1, Len(s) - 1))
    ELSE 10 * DecimalValue(SubSeq(s, 1, Len(s) - 1)) + DigitValue(s[Len(s)])

\* int(s) of a str: surrounding whitespace, an optional sign, then digits
\* with single underscores allowed between digits.  ok = FALSE is ValueError.
IntParse(s) ==
    LET t    == Strip(s)
        sign == IF Len(t) > 0 /\ t[1] \in {"+", "-"} THEN 1 ELSE 0
        body == SubSeq(t, sign + 1, Len(t))
        wellFormed ==
            /\ Len(body) > 0
            /\ \A i \in 1..Len(body) : body[i] \in DecimalDigits \cup {"_"}
            /\ body[1] # "_" /\ body[Len(body)] # "_"
            /\ \A i \in 1..(Len(body) - 1) : ~(body[i] = "_" /\ body[i + 1] = "_")
    IN  IF wellFormed
        THEN [ok |-> TRUE,
              n  |-> IF sign = 1 /\ t[1] = "-" THEN 0 - DecimalValue(body)
                     ELSE DecimalValue(body)]
        ELSE [ok |-> FALSE, n |-> 0]

(* ------------------------------------------------------------------ *)
(* The enumerated names of routes.py, as character sequences           *)
(* ------------------------------------------------------------------ *)

S_male == <<"m", "a", "l", "e">>

S_female == <<"f", "e", "m", "a", "l", "e">>

S_other == <<"o", "t", "h", "e", "r">>

S_Male == <<"M", "a", "l", "e">>

S_Female == <<"F", "e", "m", "a", "l", "e">>

S_Other == <<"O", "t", "h", "e", "r">>

S_zakhar == <<"zayin", "kaf", "resh">>

S_nekeva == <<"nun", "qof", "bet", "he">>

S_acher == <<"alef", "het", "resh">>

S_maccabi_he == <<"mem", "kaf", "bet", "yod">>

S_meuhedet_he == <<"mem", "alef", "vav", "het", "dalet", "tav">>

S_clalit_he == <<"kaf", "lamed", "lamed", "yod", "tav">>

S_maccabi == <<"m", "a", "c", "c", "a", "b", "i">>

S_meuhedet == <<"m", "e", "u", "h", "e", "d", "e", "t">>

S_clalit == <<"c", "l", "a", "l", "i", "t">>

S_Maccabi == <<"M", "a", "c", "c", "a", "b", "i">>

S_Clalit == <<"C", "l", "a", "l", "i", "t">>

S_Meuhedet == <<"M", "e", "u", "h", "e", "d", "e", "t">>

S_zahav == <<"zayin", "he", "bet">>

S_kesef == <<"kaf", "samekh", "pe_final">>

S_arad == <<"alef", "resh", "dalet">>

S_gold == <<"g", "o", "l", "d">>

S_silver == <<"s", "i", "l", "v", "e", "r">>

S_bronze == <<"b", "r", "o", "n", "z", "e">>

S_Gold == <<"G", "o", "l", "d">>

S_Silver == <<"S", "i", "l", "v", "e", "r">>

S_Bronze == <<"B", "r", "o", "n", "z", "e">>


(* ------------------------------------------------------------------ *)
(* JSON values carried by requests and model replies                   *)
(* ------------------------------------------------------------------ *)

\* A JSON value of the kinds the handlers tell apart: null (Python None),
\* a string (a sequence of characters) or a number.
JNull == [t |-> "null", s |-> << >>, n |-> 0]

JStr(s) == [t |-> "str", s |-> s, n |-> 0]

JNum(n) == [t |-> "num", s |-> << >>, n |-> n]

\* Python truthiness: None, "" and 0 are false.
Truthy(v) ==
    CASE v.t = "null" -> FALSE
      [] v.t = "str"  -> Len(v.s) > 0
      [] v.t = "num"  -> v.n # 0

\* The Python None used as the name of a field (a reply whose
\* field_to_update is null or absent).
PyNone == "<None>"

\* dict.get(key, default)
Get(d, key, default) == IF key \in DOMAIN d THEN d[key] ELSE default

\* json.dumps writes the key None as "null".
JsonKey(k) == IF k = PyNone THEN "null" ELSE k

\* A dict of strings as it arrives at the other side of the HTTP exchange.
\* The key None is only ever inserted after a key "null" the request
\* brought, and the last of two equal keys wins when the body is parsed.
JsonDict(d) ==
    [k \in {JsonKey(x) : x \in DOMAIN d} |->
        IF k = "null" /\ PyNone \in DOMAIN d THEN d[PyNone] ELSE d[k]]

\* DictSet as it would be if the assignment replaced the dict.
DictSetOnly(d, key, value) == [k \in {key} |-> value]

\* d[key] = value on a Python dict.
DictSet(d, key, value) ==
    [k \in DOMAIN d \cup {key} |-> IF k = key THEN value ELSE d[k]]

(* ------------------------------------------------------------------ *)
(* routes.py: validate_session_id and validate_field                   *)
(* ------------------------------------------------------------------ *)

HexDigits == Digits \cup {"a", "b", "c", "d", "e", "f", "A", "B", "C", "D", "E", "F"}

\* uuid.UUID(session_id) applied to what the request carried (the urn: and
\* brace forms are not among the inputs): "ok" when the string without its
\* hyphens is 32 hexadecimal digits, "ValueError" for another string,
\* "AttributeError" for a value that is no string.
UUIDParse(session_id) ==
    IF session_id.t # "str" THEN "AttributeError"
    ELSE LET hex == {i \in 1..Len(session_id.s) : session_id.s[i] # "-"}
         IN  IF Cardinality(hex) = 32 /\ \A i \in hex : session_id.s[i] \in HexDigits
             THEN "ok" ELSE "ValueError"

\* validate_session_id: "ok", or the exception that leaves it: an
\* HTTPException with status 400 for ValueError, anything else as it is.
validate_session_id(session_id) ==
    LET r == UUIDParse(session_id)
    IN  IF r = "ValueError" THEN "HTTPException400" ELSE r

valid_genders == {S_male, S_female, S_other, S_zakhar, S_nekeva, S_acher, S_Male, S_Female, S_Other}

valid_hmos == {S_maccabi_he, S_meuhedet_he, S_clalit_he, S_maccabi, S_meuhedet, S_clalit, S_Maccabi, S_Clalit, S_Meuhedet}

valid_tiers == {S_zahav, S_kesef, S_arad, S_gold, S_silver, S_bronze, S_Gold, S_Silver, S_Bronze}

\* The result of validate_field when the value passes (Python None).
NoError == "None"

\* validate_field as it would be if only the names were validated.
validate_field_names_only(field_name, value) ==
    IF Len(value) = 0 \/ Len(Strip(value)) = 0 THEN "cannot be empty."
    ELSE IF field_name \in {"first_name", "last_name"} /\ ~IsAlpha(value)
    THEN "must contain only alphabetic characters."
    ELSE NoError

\* validate_field(field_name, value) for a str value: NoError, the error
\* message, or "AttributeError" when building the message raises (the field
\* name is None and the value is empty).
validate_field(field_name, value) ==
    IF Len(value) = 0 \/ Len(Strip(value)) = 0
    THEN IF field_name = PyNone THEN "AttributeError" ELSE "cannot be empty."
    ELSE CASE field_name \in {"first_name", "last_name"} ->
                IF ~IsAlpha(value)
                THEN "must contain only alphabetic characters." ELSE NoError
           [] field_name = "id_number" ->
                IF ~MatchNineDigits(value)
                THEN "ID number must be exactly 9 digits." ELSE NoError
           [] field_name = "gender" ->
                IF Lower(value) \notin valid_genders
                THEN "Gender must be male, female, or other." ELSE NoError
           [] field_name = "age" ->
                LET age == IntParse(value)
                IN  IF ~age.ok THEN "Age must be a valid number."
                    ELSE IF ~(0 <= age.n /\ age.n <= 120)
                    THEN "Age must be a number between 0 and 120."
                    ELSE NoError
           [] field_name = "hmo_name" ->
                IF Lower(value) \notin valid_hmos
                THEN "HMO name must be one of: Maccabi, Meuhedet, Clalit."
                ELSE NoError
           [] field_name = "insurance_membership_tier" ->
                IF value \notin valid_tiers
                THEN "Insurance membership tier must be gold, silver, or bronze."
                ELSE NoError
           [] field_name = "hmo_card_number" ->
                IF ~MatchNineDigits(value)
                THEN "HMO card number must be exactly 9 digits." ELSE NoError
           [] OTHER -> NoError

(* ------------------------------------------------------------------ *)
(* routes.py: the collect_user_info endpoint                           *)
(* ------------------------------------------------------------------ *)

required_fields ==
    <<"first_name", "last_name", "id_number", "gender", "age", "hmo_name",
      "insurance_membership_tier", "hmo_card_number">>

RequiredFieldSet == {required_fields[i] : i \in 1..Len(required_fields)}

\* The fields still to collect: absent from collected_data, or held with an
\* empty value.
missing_fields(collected_data) ==
    {f \in RequiredFieldSet :
        f \notin DOMAIN collected_data \/ Len(collected_data[f]) = 0}

\* The keys a parsed model reply must carry.
required_keys == {"confirmation_status", "message_to_user", "transition_to_qa"}

\* reply.get(key, default) of a reply that is a JSON object.
ReplyGet(gpt, key, default) == IF key \in gpt.absent THEN default ELSE gpt[key]

\* What the HTTP client receives when the handler returns a dict: status
\* 200 and the dict as JSON.
Returned(body, calls) ==
    [status_code |-> 200, unhandled |-> FALSE, body |-> body, gpt_calls |-> calls]

\* What the HTTP client receives when an exception leaves the handler: the
\* server's plain "Internal Server Error" with status 500.
Escaped(calls) ==
    [status_code |-> 500, unhandled |-> TRUE,
     body |-> [text |-> <<"Internal Server Error">>], gpt_calls |-> calls]

\* What the HTTP client receives when an HTTPException leaves the handler.
HttpError(code, detail, calls) ==
    [status_code |-> code, unhandled |-> FALSE,
     body |-> [detail |-> <<detail>>], gpt_calls |-> calls]

\* What the try block of collect_user_info does: it returns a dict, or it
\* raises (raised # "none").
TryReturn(body) == [raised |-> "none", body |-> body]

TryRaise(what) == [raised |-> what, body |-> << >>]

\* HandleValidation as it would be if the value were stored without the
\* validator being asked.
HandleValidationUnchecked(collected_data, field_to_update, value) ==
    IF ~Truthy(value)
    THEN [outcome |-> "skipped", error |-> NoError, collected_data |-> collected_data]
    ELSE IF value.t # "str"
    THEN [outcome |-> "raised", error |-> "AttributeError",
          collected_data |-> collected_data]
    ELSE [outcome |-> "stored", error |-> NoError,
          collected_data |-> DictSet(collected_data, field_to_update, Strip(value.s))]

\* HandleValidation as it would be if the value were stored before the
\* validator's answer is looked at.
HandleValidationStoreFirst(collected_data, field_to_update, value) ==
    LET stripped         == Strip(value.s)
        validation_error == validate_field(field_to_update, stripped)
        stored           == DictSet(collected_data, field_to_update, stripped)
    IN  IF ~Truthy(value)
        THEN [outcome |-> "skipped", error |-> NoError, collected_data |-> collected_data]
        ELSE IF value.t # "str" \/ validation_error = "AttributeError"
        THEN [outcome |-> "raised", error |-> "AttributeError",
              collected_data |-> collected_data]
        ELSE IF validation_error # NoError
        THEN [outcome |-> "rejected", error |-> validation_error,
              collected_data |-> stored]
        ELSE [outcome |-> "stored", error |-> NoError, collected_data |-> stored]

\* "Handle validation": a truthy value is stripped and validated, and stored
\* under field_to_update when the validator accepts it.  outcome is
\* "skipped" (no value), "raised" (value.strip() or the validator raised),
\* "rejected" (with the validator's message) or "stored".
HandleValidation(collected_data, field_to_update, value) ==
    LET stripped         == Strip(value.s)
        validation_error == validate_field(field_to_update, stripped)
        Outcome(o, e, d) == [outcome |-> o, error |-> e, collected_data |-> d]
    IN  IF ~Truthy(value) THEN Outcome("skipped", NoError, collected_data)
        ELSE IF value.t # "str" THEN Outcome("raised", "AttributeError", collected_data)
        ELSE IF validation_error = "AttributeError"
        THEN Outcome("raised", "AttributeError", collected_data)
        ELSE IF validation_error # NoError
        THEN Outcome("rejected", validation_error, collected_data)
        ELSE Outcome("stored", NoError,
                     DictSet(collected_data, field_to_update, stripped))

\* Respond as it would be if the transition were withheld whatever the
\* reply confirms.
RespondWithheld(handled, new_confirmation_status, reply_transition_to_qa) ==
    CASE handled.outcome = "raised" -> TryRaise(handled.error)
      [] handled.outcome = "rejected" ->
            TryReturn([status |-> "pending",
                       response |-> <<handled.error, "Please try again.">>,
                       collected_data |-> JsonDict(handled.collected_data)])
      [] OTHER ->
            TryReturn([status |-> "success",
                       response |-> <<"message_to_user">>,
                       collected_data |-> JsonDict(handled.collected_data),
                       confirmation_status |-> new_confirmation_status,
                       transition_to_qa |-> FALSE])

\* The end of the turn, from the confirmation status on: the transition is
\* withheld unless the reply confirms, and the dict is returned.
Respond(handled, new_confirmation_status, reply_transition_to_qa) ==
    LET transition_to_qa ==
            IF reply_transition_to_qa /\ ~new_confirmation_status
            THEN FALSE ELSE reply_transition_to_qa
    IN  CASE handled.outcome = "raised" -> TryRaise(handled.error)
          [] handled.outcome = "rejected" ->
                TryReturn([status |-> "pending",
                           response |-> <<handled.error, "Please try again.">>,
                           collected_data |-> JsonDict(handled.collected_data)])
          [] OTHER ->
                IF transition_to_qa
                THEN TryReturn([status |-> "success",
                                response |-> <<"Thank you for confirming! You can now ask questions.">>,
                                collected_data |-> JsonDict(handled.collected_data),
                                transition_to_qa |-> TRUE])
                ELSE TryReturn([status |-> "success",
                                response |-> <<"message_to_user">>,
                                collected_data |-> JsonDict(handled.collected_data),
                                confirmation_status |-> new_confirmation_status,
                                transition_to_qa |-> transition_to_qa])

\* The re-prompt when fields are missing and the reply offers no value.
\* "none" when the turn goes on.
Reprompt(collected_data, value) ==
    IF missing_fields(collected_data) = {} THEN "none"
    ELSE IF value.t = "null" THEN "pending"
    ELSE IF value.t # "str" THEN "raised"
    ELSE IF Len(Strip(value.s)) = 0 THEN "pending"
    ELSE "none"

\* The turn from the parsed reply on (the reply is a JSON object carrying
\* the required keys).
UpdateAndRespond(collected_data, confirmation_status, gpt) ==
    CASE Reprompt(collected_data, ReplyGet(gpt, "value", JNull)) = "pending" ->
            TryReturn([status |-> "pending",
                       response |-> <<"message_to_user">>,
                       collected_data |-> JsonDict(collected_data)])
      [] Reprompt(collected_data, ReplyGet(gpt, "value", JNull)) = "raised" ->
            TryRaise("AttributeError")
      [] OTHER ->
            Respond(HandleValidation(collected_data,
                                     ReplyGet(gpt, "field_to_update", PyNone),
                                     ReplyGet(gpt, "value", JNull)),
                    ReplyGet(gpt, "confirmation_status", confirmation_status),
                    ReplyGet(gpt, "transition_to_qa", FALSE))

\* ParseAndRespond as it would be without the check of the required keys.
ParseAndRespondAnyKeys(collected_data, confirmation_status, gpt) ==
    CASE gpt.shape = "api_error" -> TryRaise("APIError")
      [] gpt.shape = "not_json" ->
            TryReturn([status |-> "error",
                       response |-> <<"There was an issue processing your input. Please try again.">>,
                       collected_data |-> JsonDict(collected_data)])
      [] gpt.shape \in {"json_scalar", "json_array"} -> TryRaise("AttributeError")
      [] gpt.shape = "json_object" ->
            UpdateAndRespond(collected_data, confirmation_status, gpt)

\* The turn from the model's reply on: json.loads and the required keys.
ParseAndRespond(collected_data, confirmation_status, gpt) ==
    CASE gpt.shape = "api_error" ->
            TryRaise("APIError")
      [] gpt.shape = "not_json" ->
            TryReturn([status |-> "error",
                      response |-> <<"There was an issue processing your input. Please try again.">>,
                      collected_data |-> JsonDict(collected_data)])
      [] gpt.shape = "json_scalar" ->
            TryRaise("TypeError")
      [] gpt.shape = "json_array" ->
            TryReturn([status |-> "error",
                      response |-> <<"An unexpected issue occurred. Please try again.">>,
                      collected_data |-> JsonDict(collected_data)])
      [] gpt.shape = "json_object" ->
            IF required_keys \cap gpt.absent # {}
            THEN TryReturn([status |-> "error",
                           response |-> <<"An unexpected issue occurred. Please try again.">>,
                           collected_data |-> JsonDict(collected_data)])
            ELSE UpdateAndRespond(collected_data, confirmation_status, gpt)

\* The session id passes lines 59-67: collected_data is assigned after that.
SessionAccepted(session_id) ==
    Truthy(session_id) /\ validate_session_id(session_id) = "ok"

\* The try block of collect_user_info.
CollectTry(session_id, collected_data, confirmation_status, gpt) ==
    IF ~Truthy(session_id) THEN TryRaise("HTTPException400")
    ELSE IF validate_session_id(session_id) # "ok"
    THEN TryRaise(validate_session_id(session_id))
    ELSE ParseAndRespond(collected_data, confirmation_status, gpt)

\* The end of collect_user_info: the dict the try block returned, or the
\* handler "except Exception", whose return reads collected_data; bound
\* tells whether collected_data was assigned.
ExceptHandler(try, bound, collected_data) ==
    IF try.raised = "none" THEN Returned(try.body, IF bound THEN 1 ELSE 0)
    ELSE IF ~bound THEN Escaped(0)
    ELSE Returned([status |-> "error",
                   response |-> <<"An internal error occurred. Please try again later.">>,
                   collected_data |-> JsonDict(collected_data)], 1)

\* POST /collect_user_info: the HTTP response to the request body
\* conversation_history when the model's reply is gpt.  HTTPException is an
\* Exception, so the handler "except Exception" catches the 400 raised for
\* the session id as it catches everything else; its return reads
\* collected_data, which is assigned only after the session id was
\* validated: before that the read raises UnboundLocalError, which leaves
\* the handler.
collect_user_info(conversation_history, gpt) ==
    ExceptHandler(
        CollectTry(Get(conversation_history, "session_id", JNull),
                   Get(conversation_history, "collected_data", << >>),
                   Get(conversation_history, "confirmation_status", FALSE),
                   gpt),
        SessionAccepted(Get(conversation_history, "session_id", JNull)),
        Get(conversation_history, "collected_data", << >>))

(* ------------------------------------------------------------------ *)
(* utils.py: find_closest_match                                        *)
(* ------------------------------------------------------------------ *)

\* The default threshold of find_closest_match, 0.3, in tenths.
ThresholdTenths == 3

RECURSIVE Dot(_, _)
\* The inner product of two vectors of one length.
Dot(u, v) ==
    IF Len(u) = 0 THEN 0 ELSE Head(u) * Head(v) + Dot(Tail(u), Tail(v))

\* scipy's cosine(u, v) = 1 - u.v / sqrt(u.u * v.v), kept exactly as the
\* pair (u.v, u.u * v.v); with a zero vector the quotient is 0/0 and the
\* distance is NaN.
cosine(u, v) ==
    [nan |-> Dot(u, u) * Dot(v, v) = 0,
     dot |-> Dot(u, v),
     nn  |-> Dot(u, u) * Dot(v, v)]

\* WithinThreshold as it would be if the threshold were compared with the
\* cosine similarity.
WithinThresholdSimilarity(d) ==
    /\ ~d.nan
    /\ d.dot >= 0
    /\ 100 * d.dot * d.dot >= ThresholdTenths * ThresholdTenths * d.nn

\* d <= ThresholdTenths / 10, that is u.v / sqrt(nn) >= 1 - ThresholdTenths/10;
\* every comparison with NaN is false.
WithinThreshold(d) ==
    /\ ~d.nan
    /\ d.dot >= 0
    /\ 100 * d.dot * d.dot >= (10 - ThresholdTenths) * (10 - ThresholdTenths) * d.nn

\* d1 < d2 for two distances that are not NaN: the cosine of d1 is the
\* greater one.
DistanceLess(d1, d2) ==
    CASE d1.dot >= 0 /\ d2.dot < 0  -> TRUE
      [] d1.dot < 0 /\ d2.dot >= 0  -> FALSE
      [] d1.dot >= 0 /\ d2.dot >= 0 -> d1.dot * d1.dot * d2.nn > d2.dot * d2.dot * d1.nn
      [] OTHER                      -> d1.dot * d1.dot * d2.nn < d2.dot * d2.dot * d1.nn

\* The matches of one file's chunks, in the order of the scan.
RECURSIVE ScanChunks(_, _, _)
ScanChunks(query_embedding, file_name, chunks) ==
    IF Len(chunks) = 0 THEN << >>
    ELSE LET chunk    == Head(chunks)
             distance == cosine(query_embedding, chunk.embedding)
             rest     == ScanChunks(query_embedding, file_name, Tail(chunks))
         IN  IF WithinThreshold(distance)
             THEN <<[file |-> file_name, chunk_id |-> chunk.chunk_id,
                     content |-> chunk.content, distance |-> distance]>> \o rest
             ELSE rest

\* The matches of all files, in the order of the scan.
RECURSIVE ScanFiles(_, _)
ScanFiles(query_embedding, knowledge_base) ==
    IF Len(knowledge_base) = 0 THEN << >>
    ELSE ScanChunks(query_embedding, Head(knowledge_base).file,
                    Head(knowledge_base).chunks)
            \o ScanFiles(query_embedding, Tail(knowledge_base))

\* One match put into a list sorted by distance, after the matches that
\* are not farther than it.
RECURSIVE InsertByDistance(_, _)
InsertByDistance(sortedMatches, m) ==
    IF Len(sortedMatches) = 0 THEN <<m>>
    ELSE IF DistanceLess(m.distance, Head(sortedMatches).distance)
    THEN <<m>> \o sortedMatches
    ELSE <<Head(sortedMatches)>> \o InsertByDistance(Tail(sortedMatches), m)

\* SortedByDistance as it would be without the sort.
ScanOrder(matches) == matches

\* sorted(matches, key=lambda x: x["distance"]): a stable sort.
RECURSIVE SortedByDistance(_)
SortedByDistance(matches) ==
    IF Len(matches) = 0 THEN << >>
    ELSE InsertByDistance(SortedByDistance(SubSeq(matches, 1, Len(matches) - 1)),
                          matches[Len(matches)])

\* find_closest_match(query_embedding, knowledge_base) with the default
\* threshold.  The knowledge base, a dict from file name to list of chunks,
\* is the sequence of its items.
find_closest_match(query_embedding, knowledge_base) ==
    SortedByDistance(ScanFiles(query_embedding, knowledge_base))

(* ------------------------------------------------------------------ *)
(* routes.py: the answer_query endpoint                                *)
(* ------------------------------------------------------------------ *)

\* What the HTTP client receives from answer_query, with the number of
\* embedding and generation calls made for the request.
Answered(http, embed_calls, gpt_calls) ==
    [status_code |-> http.status_code, unhandled |-> http.unhandled,
     body |-> http.body, embed_calls |-> embed_calls, gpt_calls |-> gpt_calls]

\* The body of the try block of answer_query: what it returns, or what it
\* raises (raised # "none"), with the calls made until then.
answer_query_try(query_data, embedding, generation, knowledge_base) ==
    LET user_info == Get(query_data, "user_info", << >>)
        question  == Get(query_data, "question", << >>)
        closest_matches == find_closest_match(embedding.vector, knowledge_base)
        Raise(what, embed_calls, gpt_calls) ==
            [raised |-> what, body |-> << >>,
             embed_calls |-> embed_calls, gpt_calls |-> gpt_calls]
    IN  IF DOMAIN user_info = {} \/ Len(question) = 0
        THEN Raise("HTTPException400", 0, 0)
        ELSE IF ~embedding.ok
        THEN Raise("Exception", 1, 0)
        ELSE IF Len(closest_matches) = 0
        THEN Raise("HTTPException404", 1, 0)
        ELSE IF ~generation.ok
        THEN Raise("Exception", 1, 1)
        ELSE [raised |-> "none",
              body |-> [status |-> "success",
                        closest_match |-> closest_matches,
                        answer |-> <<"answer">>],
              embed_calls |-> 1, gpt_calls |-> 1]

\* POST /answer_query: the HTTP response to the request body query_data,
\* given what the embedding call and the generation call do.  user_info is
\* absent, or a dict; question is absent, or a string.  The handler
\* "except Exception" catches whatever the try block raised, the
\* HTTPExceptions with status 400 and 404 included (HTTPException is an
\* Exception), and raises HTTPException(500, "Internal Server Error").
answer_query(query_data, embedding, generation, knowledge_base) ==
    LET r == answer_query_try(query_data, embedding, generation, knowledge_base)
    IN  IF r.raised # "none"
        THEN Answered(HttpError(500, "Internal Server Error", 0),
                      r.embed_calls, r.gpt_calls)
        ELSE Answered(Returned(r.body, 0), r.embed_calls, r.gpt_calls)

(* ------------------------------------------------------------------ *)
(* frontend.py: the collect_user_info handler of the user interface    *)
(* ------------------------------------------------------------------ *)

\* initialize_conversation: the state of a new session.
initialize_conversation(session_id) ==
    [user_info |-> << >>, session_id |-> session_id, in_qa_phase |-> FALSE]

\* dict.update
DictUpdate(d, other) ==
    [k \in DOMAIN d \cup DOMAIN other |-> IF k \in DOMAIN other THEN other[k] ELSE d[k]]

\* The request body the frontend sends for a turn.
Payload(conversation_state) ==
    [collected_data |-> conversation_state.user_info,
     session_id |-> JStr(conversation_state.session_id)]

\* The values the handler returns to the user interface: how many there
\* are, the visibility of the two panels and the message shown.
Outputs(n, user_info_phase, qa_phase, message) ==
    [n |-> n, user_info_phase |-> user_info_phase, qa_phase |-> qa_phase,
     assistant_output |-> message]

\* The frontend's collect_user_info from the backend's answer on: http is
\* the HTTP response, or Unreachable when requests.post raises.
Unreachable ==
    [status_code |-> 0, unhandled |-> FALSE, body |-> [text |-> <<"">>], gpt_calls |-> 0]

\* frontend_collect_user_info as it would be if the handler followed the
\* response's transition_to_qa without looking at the fields.
frontend_collect_user_info_ungated(conversation_state, http) ==
    IF \/ http = Unreachable
       \/ "text" \in DOMAIN http.body
       \/ "collected_data" \notin DOMAIN http.body
    THEN [state |-> conversation_state,
          ui |-> Outputs(5, TRUE, FALSE, <<"Error">>)]
    ELSE LET merged == [conversation_state EXCEPT
                          !.user_info = DictUpdate(@, http.body.collected_data)]
         IN  IF Get(http.body, "transition_to_qa", FALSE)
             THEN [state |-> [merged EXCEPT !.in_qa_phase = TRUE],
                   ui |-> Outputs(6, FALSE, TRUE, <<"All information collected">>)]
             ELSE [state |-> merged,
                   ui |-> Outputs(6, TRUE, FALSE, http.body.response)]

frontend_collect_user_info(conversation_state, http) ==
    IF http = Unreachable \/ "text" \in DOMAIN http.body
    THEN [state |-> conversation_state,
          ui |-> Outputs(5, TRUE, FALSE, <<"Error: exception">>)]
    ELSE IF "collected_data" \notin DOMAIN http.body
    THEN [state |-> conversation_state,
          ui |-> Outputs(5, TRUE, FALSE, <<"Error: Invalid response from backend.">>)]
    ELSE LET merged == [conversation_state EXCEPT
                          !.user_info = DictUpdate(@, http.body.collected_data)]
             missing == {f \in RequiredFieldSet : f \notin DOMAIN merged.user_info}
         IN  IF Get(http.body, "transition_to_qa", FALSE)
             THEN IF missing = {}
                  THEN [state |-> [merged EXCEPT !.in_qa_phase = TRUE],
                        ui |-> Outputs(6, FALSE, TRUE,
                                 <<"All information collected successfully! You can now proceed to the Q&A phase.">>)]
                  ELSE [state |-> merged,
                        ui |-> Outputs(6, TRUE, FALSE, <<"Error: Missing fields detected">>)]
             ELSE [state |-> merged,
                   ui |-> Outputs(6, TRUE, FALSE, http.body.response)]

(* ------------------------------------------------------------------ *)
(* Part1/utils.py: the comparison with a reference record              *)
(* ------------------------------------------------------------------ *)

\* A record (a dict decoded from JSON) is JDict(d), d a function from its
\* keys, character sequences, to leaves (JStr, JNull) and to records.
JDict(d) == [t |-> "dict", d |-> d]

\* The field names validate_dynamic_data looks for, their Hebrew letters
\* written by their names: the date field of the form and its day, month
\* and year, the ID number and the mobile phone.
FieldNames ==
    [date  |-> <<"tav", "alef", "resh", "yod", "kaf_final", " ",
                 "lamed", "yod", "dalet", "he">>,
     day   |-> <<"yod", "vav", "mem_final">>,
     month |-> <<"het", "vav", "dalet", "shin">>,
     year  |-> <<"shin", "nun", "he">>,
     id    |-> <<"mem", "samekh", "pe", "resh", " ", "zayin", "he", "vav", "tav">>,
     phone |-> <<"tet", "lamed", "pe", "vav", "nun_final", " ",
                 "nun", "yod", "yod", "dalet">>]

\* The order in which the dicts of the inputs hold their keys (a dict is
\* iterated in insertion order): a.b, a, c', b, c", then the fields of the
\* form.
KeyOrder ==
    <<<<"a", ".", "b">>, <<"a">>, <<"c", "'">>, <<"b">>, <<"c", "\"">>,
      FieldNames.date, FieldNames.day, FieldNames.month, FieldNames.year,
      FieldNames.id, FieldNames.phone>>

RECURSIVE normalize_keys(_)
\* normalize_keys: the gershayim and the apostrophe of every key become a
\* double quote, in nested records too; of two keys that become equal the
\* later one keeps its value.
normalize_keys(data) ==
    IF data.t # "dict" THEN data
    ELSE LET Replace(key) ==
                 [i \in 1..Len(key) |->
                    IF key[i] \in {"gershayim", "'"} THEN "\"" ELSE key[i]]
             Sources(k) ==
                 {i \in 1..Len(KeyOrder) :
                    KeyOrder[i] \in DOMAIN data.d /\ Replace(KeyOrder[i]) = k}
             Last(k) ==
                 KeyOrder[CHOOSE i \in Sources(k) : \A j \in Sources(k) : j <= i]
         IN  JDict([k \in {Replace(key) : key \in DOMAIN data.d} |->
                      normalize_keys(data.d[Last(k)])])

RECURSIVE flatten_json(_, _)
RECURSIVE FlattenItems(_, _, _)
\* The items of flatten_json after the loop has passed the first n keys of
\* the iteration order.
FlattenItems(data, parent_key, n) ==
    IF n = 0 THEN << >>
    ELSE LET key     == KeyOrder[n]
             items   == FlattenItems(data, parent_key, n - 1)
             new_key == IF Len(parent_key) > 0
                        THEN parent_key \o <<".">> \o key ELSE key
         IN  IF key \notin DOMAIN data.d THEN items
             ELSE IF data.d[key].t = "dict"
             THEN DictUpdate(items, flatten_json(data.d[key], new_key))
             ELSE DictSet(items, new_key, data.d[key])

\* flatten_json(data, parent_key): the dict of dotted paths.
flatten_json(data, parent_key) == FlattenItems(data, parent_key, Len(KeyOrder))

\* validate_with_ground_truth(json_data, ground_truth): the result dict,
\* or the exception raised.  A percentage is the fraction num / den.
validate_with_ground_truth(json_data, ground_truth) ==
    LET flat_json_data    == flatten_json(normalize_keys(json_data), << >>)
        flat_ground_truth == flatten_json(normalize_keys(ground_truth), << >>)
        total_fields      == Cardinality(DOMAIN flat_ground_truth)
        missing_keys      == DOMAIN flat_ground_truth \ DOMAIN flat_json_data
        mismatched ==
            {key \in DOMAIN flat_ground_truth :
                Get(flat_json_data, key, JStr(<< >>)) # flat_ground_truth[key]}
        correct_count     == total_fields - Cardinality(mismatched)
    IN  IF total_fields = 0 THEN [raised |-> "ZeroDivisionError"]
        ELSE [raised |-> "none",
              accuracy |-> [num |-> 100 * correct_count, den |-> total_fields],
              completeness |->
                 [num |-> 100 * (total_fields - Cardinality(missing_keys)),
                  den |-> total_fields],
              missing_fields |-> missing_keys,
              mismatched_fields |->
                 [key \in mismatched |->
                    [expected |-> flat_ground_truth[key],
                     actual |-> Get(flat_json_data, key, JStr(<< >>))]]]

\* str.isdigit(): non-empty and every character a digit; the superscript
\* two is a digit to isdigit() and is not a decimal digit to int().
isdigit(s) ==
    Len(s) > 0 /\ \A i \in 1..Len(s) : s[i] \in DecimalDigits \cup {"superscript_2"}

\* The reference record loaded from gt/283_ex1_gt.json when the module is
\* imported.  The file is not among the sources; the reference is taken to
\* hold the fields validate_dynamic_data looks for.  Only missing_fields
\* and completeness depend on it.
gt_for_fields ==
    JDict((FieldNames.date :>
              JDict((FieldNames.day :> JStr(<< >>)) @@ (FieldNames.month :> JStr(<< >>))
                      @@ (FieldNames.year :> JStr(<< >>))))
            @@ (FieldNames.id :> JStr(<< >>)) @@ (FieldNames.phone :> JStr(<< >>)))

\* validate_dynamic_data(json_data): the result dict, or the exception
\* raised.  The loop gives each field of the flattened record a message, no
\* message, or the ValueError of int().
validate_dynamic_data(json_data) ==
    LET flat_json_data == flatten_json(normalize_keys(json_data), << >>)
        gt_keys        == DOMAIN flatten_json(normalize_keys(gt_for_fields), << >>)
        missing_keys   == gt_keys \ DOMAIN flat_json_data
        total_required == Cardinality(gt_keys)
        EndsWith(field, suffix) ==
            /\ Len(field) >= Len(suffix)
            /\ SubSeq(field, Len(field) - Len(suffix) + 1, Len(field)) = suffix
        Contains(field, part) ==
            \E k \in 0..(Len(field) - Len(part)) :
               SubSeq(field, k + 1, k + Len(part)) = part
        Checked(field) ==
            LET value == flat_json_data[field].s
            IN  IF Contains(field, SubSeq(FieldNames.date, 1, 5))
                   /\ Truthy(flat_json_data[field])
                THEN IF EndsWith(field, FieldNames.day) \/ EndsWith(field, FieldNames.month)
                     THEN IF isdigit(value) /\ ~IntParse(value).ok
                          THEN "ValueError"
                          ELSE IF EndsWith(field, FieldNames.month)
                          THEN IF ~IntParse(value).ok THEN "ValueError"
                               ELSE IF IntParse(value).n > 12
                               THEN "Invalid month value"
                               ELSE IF ~isdigit(value) \/ IntParse(value).n <= 0
                               THEN "Invalid day or month value"
                               ELSE "valid"
                          ELSE IF ~isdigit(value) \/ IntParse(value).n <= 0
                          THEN "Invalid day or month value"
                          ELSE "valid"
                     ELSE IF EndsWith(field, FieldNames.year)
                             /\ (~isdigit(value) \/ Len(value) # 4)
                     THEN "Invalid year value"
                     ELSE "valid"
                ELSE IF field = FieldNames.id /\ Truthy(flat_json_data[field])
                THEN IF ~isdigit(value) \/ Len(value) # 9
                     THEN "Invalid ID number" ELSE "valid"
                ELSE IF field = FieldNames.phone /\ Truthy(flat_json_data[field])
                THEN IF ~isdigit(value) \/ Len(value) \notin {9, 10}
                     THEN "Invalid phone number" ELSE "valid"
                ELSE "valid"
    IN  IF \E field \in DOMAIN flat_json_data : Checked(field) = "ValueError"
        THEN [raised |-> "ValueError"]
        ELSE IF total_required = 0 THEN [raised |-> "ZeroDivisionError"]
        ELSE [raised |-> "none",
              completeness |->
                 [num |-> 100 * (total_required - Cardinality(missing_keys)),
                  den |-> total_required],
              missing_fields |-> missing_keys,
              invalid_fields |->
                 [field \in {f \in DOMAIN flat_json_data : Checked(f) # "valid"} |->
                    Checked(field)]]

(* ------------------------------------------------------------------ *)
(* Part2/app/utils.py: chunk_text                                      *)
(* ------------------------------------------------------------------ *)

\* len(s.split()): the number of runs of characters that are no whitespace.
TokenCount(s) ==
    Cardinality({i \in 1..Len(s) :
        s[i] \notin Whitespace /\ (i = 1 \/ s[i - 1] \in Whitespace)})

\* " ".join of consecutive lines of raw_text.split("\n"), which stand at
\* the places first..last of raw_text: the newlines between them become
\* blanks.
JoinedLines(raw_text, first, last) ==
    [i \in 1..(last - first + 1) |->
        IF raw_text[first + i - 1] = "\n" THEN " " ELSE raw_text[first + i - 1]]

RECURSIVE ChunkLoop(_, _, _)
\* The loop of chunk_text after n lines: the chunks saved, the place where
\* the current chunk starts in raw_text, how many lines it holds, and
\* token_count.
ChunkLoop(raw_text, max_tokens, n) ==
    IF n = 0 THEN [chunks |-> << >>, first |-> 1, lines |-> 0, token_count |-> 0]
    ELSE LET before == ChunkLoop(raw_text, max_tokens, n - 1)
             Newlines(i) == Cardinality({j \in 1..i : raw_text[j] = "\n"})
             Newline(k) == CHOOSE i \in 1..Len(raw_text) :
                              raw_text[i] = "\n" /\ Newlines(i) = k
             start == IF n = 1 THEN 1 ELSE Newline(n - 1) + 1
             end   == IF Newlines(Len(raw_text)) >= n
                      THEN Newline(n) - 1 ELSE Len(raw_text)
             line_tokens == TokenCount(SubSeq(raw_text, start, end))
             kept ==
                 IF before.token_count + line_tokens > max_tokens
                 THEN [chunks |->
                          Append(before.chunks,
                                 IF before.lines = 0 THEN << >>
                                 ELSE JoinedLines(raw_text, before.first, start - 2)),
                       first |-> start, lines |-> 0, token_count |-> 0]
                 ELSE before
         IN  [chunks |-> kept.chunks,
              first |-> IF kept.lines = 0 THEN start ELSE kept.first,
              lines |-> kept.lines + 1,
              token_count |-> kept.token_count + line_tokens]

\* chunk_text(raw_text, max_tokens): the list of chunks.
chunk_text(raw_text, max_tokens) ==
    LET lines == Cardinality({i \in 1..Len(raw_text) : raw_text[i] = "\n"}) + 1
        loop  == ChunkLoop(raw_text, max_tokens, lines)
    IN  IF loop.lines > 0
        THEN Append(loop.chunks, JoinedLines(raw_text, loop.first, Len(raw_text)))
        ELSE loop.chunks

(* ------------------------------------------------------------------ *)
(* Part1/azure_ocr.py: clean_numeric_fields                            *)
(* ------------------------------------------------------------------ *)

RECURSIVE ReSub(_, _, _)
\* re.sub of one of the two patterns on the text from the place i on: the
\* leftmost match is replaced and the scan goes on behind it.
\* "split_digits" is (\d)[|l]+(\d) -> \1\2, "spaced_numbers" is
\* (\d{2})\s+(\d{2})\s+(\d{4}) -> \1-\2-\3.
ReSub(pattern, text, i) ==
    IF i > Len(text) THEN << >>
    ELSE LET IsDigit(k) == k <= Len(text) /\ text[k] \in DecimalDigits
             \* where the longest run of characters of the set from k on ends
             RunEnd(k, set) ==
                 CHOOSE j \in (k - 1)..Len(text) :
                    /\ \A m \in k..j : text[m] \in set
                    /\ j = Len(text) \/ text[j + 1] \notin set
             bars   == RunEnd(i + 1, {"|", "l"})
             gap1   == RunEnd(i + 2, Whitespace)
             gap2   == RunEnd(gap1 + 3, Whitespace)
             split  == /\ pattern = "split_digits"
                       /\ IsDigit(i) /\ bars >= i + 1 /\ IsDigit(bars + 1)
             spaced == /\ pattern = "spaced_numbers"
                       /\ IsDigit(i) /\ IsDigit(i + 1) /\ gap1 >= i + 2
                       /\ IsDigit(gap1 + 1) /\ IsDigit(gap1 + 2) /\ gap2 >= gap1 + 3
                       /\ \A m \in 1..4 : IsDigit(gap2 + m)
         IN  IF split
             THEN <<text[i], text[bars + 1]>> \o ReSub(pattern, text, bars + 2)
             ELSE IF spaced
             THEN <<text[i], text[i + 1], "-", text[gap1 + 1], text[gap1 + 2], "-">>
                    \o SubSeq(text, gap2 + 1, gap2 + 4)
                    \o ReSub(pattern, text, gap2 + 5)
             ELSE <<text[i]>> \o ReSub(pattern, text, i + 1)

\* clean_numeric_fields(text)
clean_numeric_fields(text) ==
    ReSub("spaced_numbers", ReSub("split_digits", text, 1), 1)

(* ------------------------------------------------------------------ *)
(* Inputs                                                              *)
(* ------------------------------------------------------------------ *)

\* The user's text, the assistant's previous message and the prompt built
\* from them reach only the model, whose reply is any of Replies: they are
\* not part of the state.

S_Dan == <<"D", "a", "n">>

S_Dan_padded == <<" ", "D", "a", "n", " ">>

S_nine_digits == <<"1", "2", "3", "4", "5", "6", "7", "8", "9">>

S_thirty == <<"3", "0">>

S_garbage == <<"1", "2", "a">>

S_blank == <<" ">>

S_GOLD == <<"G", "O", "L", "D">>

\* What the user may have typed for each field of the checklist and the
\* model passes on: a value the validator accepts for it.
Candidate(f) ==
    CASE f = "first_name" -> S_Dan
      [] f = "last_name" -> S_Dan_padded
      [] f = "id_number" -> S_nine_digits
      [] f = "gender" -> S_Male
      [] f = "age" -> S_thirty
      [] f = "hmo_name" -> S_Clalit
      [] f = "insurance_membership_tier" -> S_gold
      [] f = "hmo_card_number" -> S_nine_digits

\* The pairs (field_to_update, value) of the model replies that offer a
\* value: for every field of the checklist a value it accepts and one it
\* rejects, values in the wrong field, and fields outside the checklist.
ReplyUpdates ==
    {<<f, JStr(Candidate(f))>> : f \in RequiredFieldSet}
      \cup {<<f, JStr(S_garbage)>> : f \in RequiredFieldSet}
      \cup {<<"age", JStr(S_nine_digits)>>, <<"id_number", JStr(S_Dan)>>,
            <<"insurance_membership_tier", JStr(S_GOLD)>>,
            <<"nickname", JStr(S_Dan)>>, <<PyNone, JStr(S_Dan)>>}

\* The pairs of the model replies that offer no usable value.
ReplyNonValues ==
    {<<"first_name", JNull>>, <<"first_name", JStr(S_blank)>>,
     <<PyNone, JStr(S_blank)>>, <<"age", JNum(5)>>, <<"age", JNum(0)>>}

\* A reply that is a JSON object.
ObjectReply(absent, field_to_update, value, confirmation_status, transition_to_qa) ==
    [shape |-> "json_object", absent |-> absent,
     field_to_update |-> field_to_update, value |-> value,
     confirmation_status |-> confirmation_status,
     transition_to_qa |-> transition_to_qa]

\* A reply of another shape: the call raised ("api_error"), the text is no
\* JSON ("not_json"), or it is JSON but a number or null ("json_scalar") or
\* an array ("json_array").
OtherReply(shape) ==
    [shape |-> shape, absent |-> {}, field_to_update |-> PyNone, value |-> JNull,
     confirmation_status |-> FALSE, transition_to_qa |-> FALSE]

NoReply == OtherReply("none")

MalformedShapes == {"not_json", "json_scalar", "json_array"}

\* The model replies of a turn.
Replies ==
    {ObjectReply({}, u[1], u[2], c, t) :
        u \in ReplyUpdates \cup ReplyNonValues, c \in BOOLEAN, t \in BOOLEAN}
      \cup {ObjectReply({"field_to_update", "value"}, PyNone, JNull, c, t) :
        c \in BOOLEAN, t \in BOOLEAN}
      \cup {ObjectReply({k}, "first_name", JStr(S_Dan), TRUE, TRUE) : k \in required_keys}
      \cup {OtherReply(s) : s \in MalformedShapes \cup {"api_error"}}

\* The session id uuid.uuid4() gave the session.
S_session == <<"1", "2", "3", "4", "5", "6", "7", "8", "-", "1", "2", "3", "4", "-", "1", "2", "3", "4", "-", "1", "2", "3", "4", "-", "1", "2", "3", "4", "5", "6", "7", "8", "9", "a", "b", "c">>

\* The session ids of requests sent to the endpoint directly.
SessionIds ==
    {JStr(S_session), JNull, JStr(<< >>), JStr(S_Dan), JStr(S_nine_digits),
     JNum(5), JNum(0)}

\* The collected data of requests sent to the endpoint directly.
ProfileFull == [f \in RequiredFieldSet |-> Strip(Candidate(f))]

ProfilePart == [f \in {"first_name", "age"} |-> Strip(Candidate(f))]

\* The request bodies sent to collect_user_info directly.
CollectRequests ==
    {[session_id |-> s, collected_data |-> d] :
        s \in SessionIds, d \in {<< >>, ProfilePart, ProfileFull}}
      \cup {[collected_data |-> d] : d \in {<< >>, ProfileFull}}
      \cup {[session_id |-> JStr(S_session)]}

\* The embedding vectors of questions and of chunks.
QueryVectors == {<<1, 0>>, <<1, 1>>, <<-1, 2>>, <<3, 1>>}

KBVectors == {<<1, 0>>, <<2, 1>>, <<1, 1>>, <<0, 1>>}

FileNames == <<"a.html", "b.html">>

\* The longest list of chunks of a file of the knowledge base.
MaxChunks == 2

\* The chunks of one file whose embeddings are vectors, as
\* generate_embeddings_for_html_files_with_chunking writes them.
FileChunks(file_name, vectors) ==
    [i \in 1..Len(vectors) |->
        [chunk_id |-> <<file_name, i>>, embedding |-> vectors[i],
         content |-> <<file_name, i>>]]

VectorLists == UNION {[1..k -> KBVectors] : k \in 0..MaxChunks}

\* The knowledge bases: every file with each list of chunks.
KnowledgeBases ==
    {[i \in 1..Len(FileNames) |->
        [file |-> FileNames[i], chunks |-> FileChunks(FileNames[i], lists[i])]] :
     lists \in [1..Len(FileNames) -> VectorLists]}

\* The knowledge base the server loaded in the runs of the endpoints.
LoadedKnowledgeBase ==
    <<[file |-> "a.html", chunks |-> FileChunks("a.html", <<<<1, 1>>, <<1, 0>>>>)],
      [file |-> "b.html", chunks |-> FileChunks("b.html", <<<<2, 1>>>>)]>>

\* What the embedding call and the generation call of answer_query do.
Embeddings ==
    {[ok |-> TRUE, vector |-> q] : q \in QueryVectors}
      \cup {[ok |-> FALSE, vector |-> <<0, 0>>]}

Generations == {[ok |-> TRUE], [ok |-> FALSE]}

S_question == <<"q", "?">>

\* The request bodies sent to answer_query.
QueryRequests ==
    {[user_info |-> u, question |-> q] :
        u \in {<< >>, ProfilePart, ProfileFull}, q \in {<< >>, S_question}}
      \cup {[user_info |-> ProfileFull], [question |-> S_question], << >>}

\* The longest value offered for the age.
MaxAgeLen == 3

\* The values validate_field is given for the age: every string of digits,
\* signs, underscores, blanks and letters up to MaxAgeLen characters.
AgeValues ==
    UNION {[1..k -> {"0", "1", "2", "+", "-", "_", " ", "a", "arabic_indic_3"}] :
           k \in 0..MaxAgeLen}

\* The values validate_field is given for id_number and hmo_card_number:
\* strings of eight, nine and ten characters, digits but for one place.
IdValues ==
    {[i \in 1..n |-> IF i = k THEN c ELSE (S_nine_digits \o <<"0">>)[i]] :
        n \in {8, 9, 10}, k \in 1..10,
        c \in {"0", "a", " ", "\n", "-", "arabic_indic_3"}}

\* The values validate_field is given for gender, hmo_name and
\* insurance_membership_tier: the listed names, the names in other letter
\* case, and strings that are no name.
EnumValues ==
    valid_genders \cup valid_hmos \cup valid_tiers
      \cup {<<"M", "A", "L", "E">>, <<"f", "E", "m", "a", "l", "e">>,
            <<"C", "L", "A", "L", "I", "T">>, S_GOLD,
            <<"m", "a", "l">>, <<"m", "a", "l", "e", "s">>,
            <<"m", "a", "l", "e", " ">>, <<"g", "o", "l", "d", "\n">>,
            S_Dan, S_garbage, S_blank, << >>}

\* The calls of validate_field: a field name and a str value.
ValidateInputs ==
    {[field_name |-> "age", value |-> v] : v \in AgeValues}
      \cup {[field_name |-> f, value |-> v] :
              f \in {"id_number", "hmo_card_number"}, v \in IdValues}
      \cup {[field_name |-> f, value |-> v] :
              f \in {"gender", "hmo_name", "insurance_membership_tier"},
              v \in EnumValues}
      \cup {[field_name |-> f, value |-> v] :
              f \in {"first_name", "last_name"}, v \in {S_Dan, S_garbage, << >>}}

\* The records: under each of the keys a.b, a and c' nothing, a leaf or a
\* record of its own, which is empty or holds a leaf under b.
Records ==
    LET Leaves == {JStr(<<"x">>), JStr(<< >>)}
        Inner  == {JDict(<< >>)} \cup {JDict([k \in {<<"b">>} |-> v]) : v \in Leaves}
    IN  {JDict(d) : d \in UNION {[keys -> Leaves \cup Inner] :
                                   keys \in SUBSET {KeyOrder[1], KeyOrder[2], KeyOrder[3]}}}

\* The calls of validate_with_ground_truth: every record with itself, and
\* every record with the references that hold the keys a.b and a only.
RecordPairs ==
    {[json_data |-> x, ground_truth |-> x] : x \in Records}
      \cup {[json_data |-> x, ground_truth |-> g] :
              x \in Records,
              g \in {r \in Records : DOMAIN r.d \subseteq {KeyOrder[1], KeyOrder[2]}}}

\* The records given to validate_dynamic_data: a record holds any of the
\* fields of the form, each with a well-formed or a malformed string.
DynamicRecords ==
    LET Nine  == <<"1", "2", "3", "4", "5", "6", "7", "8", "9">>
        Parts(name, values) ==
            {<< >>} \cup {name :> JStr(v) : v \in values}
        Days   == Parts(FieldNames.day, {<<"5">>, <<"0">>, <<"a", "b">>})
        Months == Parts(FieldNames.month,
                        {<< >>, <<"5">>, <<"1", "3">>, <<"0">>, <<"a", "b">>,
                         <<"-", "1">>, <<"+", "1", "3">>, <<"superscript_2">>,
                         <<"arabic_indic_3">>})
        Years  == Parts(FieldNames.year, {<<"1", "9", "9", "0">>, <<"9", "0">>, <<"a", "b">>})
        Ids    == Parts(FieldNames.id, {Nine, <<"1", "2">>, <<"a", "b">>})
        Phones == Parts(FieldNames.phone, {Nine, <<"1", "2">>})
    IN  {JDict(IF d @@ m @@ y = << >> THEN i @@ p
               ELSE (FieldNames.date :> JDict(d @@ m @@ y)) @@ i @@ p) :
            d \in Days, m \in Months, y \in Years, i \in Ids, p \in Phones}

\* The longest text given to chunk_text and to clean_numeric_fields.
MaxTextLen == 5

\* The largest max_tokens.
MaxTokens == 2

\* The calls of chunk_text, on every text of words, blanks and newlines,
\* and of clean_numeric_fields, on every text of digits, bars, letters l
\* and blanks, and on two texts with spaced numbers.
TextCalls ==
    {[fn |-> "chunk_text", text |-> t, max_tokens |-> m] :
        t \in UNION {[1..k -> {"a", " ", "\n"}] : k \in 0..MaxTextLen},
        m \in 1..MaxTokens}
      \cup {[fn |-> "clean_numeric_fields", text |-> t, max_tokens |-> 0] :
              t \in UNION {[1..k -> {"1", "|", "l", " "}] : k \in 0..MaxTextLen}
                     \cup {<<"1", "1", " ", "1", "1", " ", "1", "1", "1", "1">>,
                           <<"1", "|", "1", " ", "\n", "1", "l", "1", " ",
                             "1", "1", "1", "1", "1">>}}

(* ------------------------------------------------------------------ *)
(* State                                                               *)
(* ------------------------------------------------------------------ *)

VARIABLES
    conversation_state,  \* the frontend's state of the session
    pc,                  \* where the exchange stands
    request,             \* the body of the last request
    gpt_response,        \* the model's reply to the last collect_user_info request
    query_embedding,     \* what the embedding call did for the last query
    response,            \* the last HTTP response
    ui,                  \* what the frontend handler returned last
    knowledge_base,      \* the knowledge base loaded at start
    closest_matches      \* the last result of find_closest_match

vars == <<conversation_state, pc, request, gpt_response, query_embedding,
          response, ui, knowledge_base, closest_matches>>

NoResponse == [status_code |-> 0, unhandled |-> FALSE, body |-> << >>, gpt_calls |-> 0]

NoEmbedding == [ok |-> FALSE, vector |-> << >>]

NoOutputs == Outputs(0, TRUE, FALSE, <<"">>)

\* The state once the server loaded the knowledge base kb and the
\* interface initialized the conversation.
Loaded(kb) ==
    /\ conversation_state = initialize_conversation(S_session)
    /\ pc = "idle"
    /\ request = << >>
    /\ gpt_response = NoReply
    /\ query_embedding = NoEmbedding
    /\ response = NoResponse
    /\ ui = NoOutputs
    /\ knowledge_base = kb
    /\ closest_matches = << >>

(* ------------------------------------------------------------------ *)
(* The dialogue of one session, through the frontend                   *)
(* ------------------------------------------------------------------ *)

Init == Loaded(LoadedKnowledgeBase)

\* The user submits an input in the collection phase: the frontend posts
\* the session's data and the backend, having validated the session id and
\* built the prompt, awaits the model.
SubmitInfo ==
    /\ pc \in {"idle", "answered"}
    /\ ~conversation_state.in_qa_phase
    /\ pc' = "awaiting_model"
    /\ request' = Payload(conversation_state)
    /\ gpt_response' = NoReply
    /\ response' = NoResponse
    /\ ui' = NoOutputs
    /\ UNCHANGED <<conversation_state, query_embedding, knowledge_base, closest_matches>>

\* The model replies: the backend finishes the turn and the frontend merges
\* the answer into the session.
ModelReplies ==
    /\ pc = "awaiting_model"
    /\ \E gpt \in Replies :
         LET http == collect_user_info(request, gpt)
             r    == frontend_collect_user_info(conversation_state, http)
         IN  /\ conversation_state' = r.state
             /\ gpt_response' = gpt
             /\ response' = http
             /\ ui' = r.ui
    /\ pc' = "answered"
    /\ UNCHANGED <<request, query_embedding, knowledge_base, closest_matches>>

\* The user submits an input while the backend cannot be reached:
\* requests.post raises.
SubmitInfoUnreachable ==
    /\ pc \in {"idle", "answered"}
    /\ ~conversation_state.in_qa_phase
    /\ LET r == frontend_collect_user_info(conversation_state, Unreachable)
       IN  /\ conversation_state' = r.state
           /\ ui' = r.ui
    /\ pc' = "idle"
    /\ request' = Payload(conversation_state)
    /\ gpt_response' = NoReply
    /\ response' = Unreachable
    /\ UNCHANGED <<query_embedding, knowledge_base, closest_matches>>

Next == SubmitInfo \/ ModelReplies \/ SubmitInfoUnreachable

Spec == Init /\ [][Next]_vars

(* ------------------------------------------------------------------ *)
(* The dialogue with a cooperative model                               *)
(* ------------------------------------------------------------------ *)

\* The replies of a cooperative model to a request: while a required field
\* is missing, a missing field with a value the validator accepts for it;
\* once none is missing, the confirmation and the transition, with no
\* value.
CooperativeReplies(collected_data) ==
    IF missing_fields(collected_data) # {}
    THEN {ObjectReply({}, f, JStr(Candidate(f)), c, t) :
             f \in missing_fields(collected_data), c \in BOOLEAN, t \in BOOLEAN}
    ELSE {ObjectReply({"field_to_update", "value"}, PyNone, JNull, TRUE, TRUE)}

\* The cooperative model replies: the backend finishes the turn and the
\* frontend merges the answer into the session.
CooperativeReply ==
    /\ pc = "awaiting_model"
    /\ \E gpt \in CooperativeReplies(request.collected_data) :
         \E http \in {collect_user_info(request, gpt)} :
            \E r \in {frontend_collect_user_info(conversation_state, http)} :
               /\ conversation_state' = r.state
               /\ gpt_response' = gpt
               /\ response' = http
               /\ ui' = r.ui
    /\ pc' = "answered"
    /\ UNCHANGED <<request, query_embedding, knowledge_base, closest_matches>>

\* The user goes on submitting while the collection panel is shown, and
\* every request in flight is answered: the steps to "awaiting_model" are
\* the submissions, the steps from it the replies.
SpecCooperative ==
    /\ Init
    /\ [][SubmitInfo \/ CooperativeReply]_vars
    /\ WF_pc(~conversation_state.in_qa_phase /\ pc # "awaiting_model"
                /\ pc' = "awaiting_model")
    /\ WF_pc(pc = "awaiting_model" /\ pc' = "answered")

(* ------------------------------------------------------------------ *)
(* Requests sent to the two endpoints directly                         *)
(* ------------------------------------------------------------------ *)

\* A client posts a body to /collect_user_info.
PostCollect ==
    /\ pc \in {"idle", "collect_answered", "query_answered"}
    /\ \E body \in CollectRequests : request' = body
    /\ pc' = "collecting"
    /\ gpt_response' = NoReply
    /\ query_embedding' = NoEmbedding
    /\ response' = NoResponse
    /\ UNCHANGED <<conversation_state, ui, knowledge_base, closest_matches>>

\* The endpoint answers the posted body; the model's reply is any.
AnswerCollect ==
    /\ pc = "collecting"
    /\ \E gpt \in Replies :
         /\ gpt_response' =
               IF collect_user_info(request, gpt).gpt_calls = 0 THEN NoReply ELSE gpt
         /\ response' = collect_user_info(request, gpt)
    /\ pc' = "collect_answered"
    /\ UNCHANGED <<conversation_state, request, query_embedding, ui,
                   knowledge_base, closest_matches>>

\* A client posts a body to /answer_query.
PostQuery ==
    /\ pc \in {"idle", "collect_answered", "query_answered"}
    /\ \E body \in QueryRequests : request' = body
    /\ pc' = "querying"
    /\ gpt_response' = NoReply
    /\ query_embedding' = NoEmbedding
    /\ response' = NoResponse
    /\ UNCHANGED <<conversation_state, ui, knowledge_base, closest_matches>>

\* The endpoint answers the posted query; the embedding call and the
\* generation call succeed or raise.
AnswerQuery ==
    /\ pc = "querying"
    /\ \E embedding \in Embeddings, generation \in Generations :
         LET http == answer_query(request, embedding, generation, knowledge_base)
         IN  /\ response' = http
             /\ query_embedding' =
                   IF http.embed_calls = 0 THEN NoEmbedding ELSE embedding
             /\ closest_matches' =
                   IF http.embed_calls = 1 /\ embedding.ok
                   THEN find_closest_match(embedding.vector, knowledge_base)
                   ELSE << >>
    /\ pc' = "query_answered"
    /\ UNCHANGED <<conversation_state, request, gpt_response, ui, knowledge_base>>

NextApi == PostCollect \/ AnswerCollect \/ PostQuery \/ AnswerQuery

SpecApi == Init /\ [][NextApi]_vars

(* ------------------------------------------------------------------ *)
(* find_closest_match on every knowledge base and query                *)
(* ------------------------------------------------------------------ *)

InitMatch == \E kb \in KnowledgeBases : Loaded(kb)

\* find_closest_match is applied to a query vector.
FindClosestMatch ==
    /\ \E q \in QueryVectors :
         /\ query_embedding' = [ok |-> TRUE, vector |-> q]
         /\ closest_matches' = find_closest_match(q, knowledge_base)
    /\ pc' = "matched"
    /\ UNCHANGED <<conversation_state, request, gpt_response, response, ui,
                   knowledge_base>>

NextMatch == FindClosestMatch

SpecMatch == InitMatch /\ [][NextMatch]_vars

(* ------------------------------------------------------------------ *)
(* validate_field on every field and value                             *)
(* ------------------------------------------------------------------ *)

InitValidate ==
    /\ conversation_state = initialize_conversation(S_session)
    /\ pc = "validating"
    /\ request \in ValidateInputs
    /\ gpt_response = NoReply
    /\ query_embedding = NoEmbedding
    /\ response = NoResponse
    /\ ui = NoOutputs
    /\ knowledge_base = LoadedKnowledgeBase
    /\ closest_matches = << >>

\* validate_field is applied to the field name and the value.
ValidateField ==
    /\ pc = "validating"
    /\ response' = [result |-> validate_field(request.field_name, request.value)]
    /\ pc' = "validated"
    /\ UNCHANGED <<conversation_state, request, gpt_response, query_embedding, ui,
                   knowledge_base, closest_matches>>

SpecValidate == InitValidate /\ [][ValidateField]_vars

(* ------------------------------------------------------------------ *)
(* Two sessions of the interface, their turns interleaved              *)
(* ------------------------------------------------------------------ *)

\* In this specification conversation_state, pc, request, gpt_response,
\* response and ui hold one value for each session: the interface keeps a
\* gr.State for each browser session, and the backend, which keeps nothing
\* between requests, a frame for each request in flight.
Sessions == {1, 2}

\* The session ids uuid.uuid4() gave the two sessions.
SessionIdOf(s) == IF s = 1 THEN S_session ELSE [S_session EXCEPT ![1] = "2"]

\* The model replies of the turns of the two sessions.
SessionReplies ==
    {ObjectReply({}, "first_name", JStr(S_Dan), FALSE, FALSE),
     ObjectReply({}, "age", JStr(S_thirty), TRUE, TRUE),
     ObjectReply({}, "age", JStr(S_garbage), FALSE, TRUE),
     OtherReply("not_json")}

\* SessionUpdate as it would be if the interface kept one state for all
\* sessions.
SessionUpdateShared(states, s, new) == [t \in DOMAIN states |-> new]

\* The handler's output is written to the gr.State of the session s.
SessionUpdate(states, s, new) == [states EXCEPT ![s] = new]

\* Each session is new, or is a session that has collected every field but
\* the age.
InitSessions ==
    /\ \E u \in [Sessions -> {<< >>, [f \in RequiredFieldSet \ {"age"} |->
                                        Strip(Candidate(f))]}] :
          conversation_state =
             [s \in Sessions |->
                [initialize_conversation(SessionIdOf(s)) EXCEPT !.user_info = u[s]]]
    /\ pc = [s \in Sessions |-> "idle"]
    /\ request = [s \in Sessions |-> << >>]
    /\ gpt_response = [s \in Sessions |-> NoReply]
    /\ query_embedding = NoEmbedding
    /\ response = [s \in Sessions |-> NoResponse]
    /\ ui = [s \in Sessions |-> NoOutputs]
    /\ knowledge_base = LoadedKnowledgeBase
    /\ closest_matches = << >>

\* The user of the session s submits an input in the collection phase.
SessionSubmits(s) ==
    /\ pc[s] \in {"idle", "answered"}
    /\ ~conversation_state[s].in_qa_phase
    /\ pc' = [pc EXCEPT ![s] = "awaiting_model"]
    /\ request' = [request EXCEPT ![s] = Payload(conversation_state[s])]
    /\ gpt_response' = [gpt_response EXCEPT ![s] = NoReply]
    /\ response' = [response EXCEPT ![s] = NoResponse]
    /\ ui' = [ui EXCEPT ![s] = NoOutputs]
    /\ UNCHANGED <<conversation_state, query_embedding, knowledge_base, closest_matches>>

\* The model replies to the request of the session s.
SessionReplied(s) ==
    /\ pc[s] = "awaiting_model"
    /\ \E gpt \in SessionReplies :
         LET http == collect_user_info(request[s], gpt)
             r    == frontend_collect_user_info(conversation_state[s], http)
         IN  /\ conversation_state' = SessionUpdate(conversation_state, s, r.state)
             /\ gpt_response' = [gpt_response EXCEPT ![s] = gpt]
             /\ response' = [response EXCEPT ![s] = http]
             /\ ui' = SessionUpdate(ui, s, r.ui)
    /\ pc' = [pc EXCEPT ![s] = "answered"]
    /\ UNCHANGED <<request, query_embedding, knowledge_base, closest_matches>>

NextSessions == \E s \in Sessions : SessionSubmits(s) \/ SessionReplied(s)

SpecSessions == InitSessions /\ [][NextSessions]_vars

(* ------------------------------------------------------------------ *)
(* Part1/utils.py on every pair of records                             *)
(* ------------------------------------------------------------------ *)

InitRecords ==
    /\ conversation_state = initialize_conversation(S_session)
    /\ pc = "called"
    /\ request \in RecordPairs
    /\ gpt_response = NoReply
    /\ query_embedding = NoEmbedding
    /\ response = NoResponse
    /\ ui = NoOutputs
    /\ knowledge_base = LoadedKnowledgeBase
    /\ closest_matches = << >>

\* validate_with_ground_truth is applied to the pair.
ValidateWithGroundTruth ==
    /\ pc = "called"
    /\ response' = validate_with_ground_truth(request.json_data, request.ground_truth)
    /\ pc' = "compared"
    /\ UNCHANGED <<conversation_state, request, gpt_response, query_embedding, ui,
                   knowledge_base, closest_matches>>

\* flatten_json is applied to the extracted record.
FlattenJson ==
    /\ pc = "called"
    /\ response' = [flat |-> flatten_json(request.json_data, << >>)]
    /\ pc' = "flattened"
    /\ UNCHANGED <<conversation_state, request, gpt_response, query_embedding, ui,
                   knowledge_base, closest_matches>>

SpecRecords == InitRecords /\ [][ValidateWithGroundTruth \/ FlattenJson]_vars

(* ------------------------------------------------------------------ *)
(* validate_dynamic_data on every record of the form                   *)
(* ------------------------------------------------------------------ *)

InitDynamic ==
    /\ conversation_state = initialize_conversation(S_session)
    /\ pc = "called"
    /\ request \in {[json_data |-> r] : r \in DynamicRecords}
    /\ gpt_response = NoReply
    /\ query_embedding = NoEmbedding
    /\ response = NoResponse
    /\ ui = NoOutputs
    /\ knowledge_base = LoadedKnowledgeBase
    /\ closest_matches = << >>

\* validate_dynamic_data is applied to the extracted record.
ValidateDynamicData ==
    /\ pc = "called"
    /\ response' = validate_dynamic_data(request.json_data)
    /\ pc' = "checked"
    /\ UNCHANGED <<conversation_state, request, gpt_response, query_embedding, ui,
                   knowledge_base, closest_matches>>

SpecDynamic == InitDynamic /\ [][ValidateDynamicData]_vars

(* ------------------------------------------------------------------ *)
(* chunk_text and clean_numeric_fields on every text                   *)
(* ------------------------------------------------------------------ *)

InitText ==
    /\ conversation_state = initialize_conversation(S_session)
    /\ pc = "called"
    /\ request \in TextCalls
    /\ gpt_response = NoReply
    /\ query_embedding = NoEmbedding
    /\ response = NoResponse
    /\ ui = NoOutputs
    /\ knowledge_base = LoadedKnowledgeBase
    /\ closest_matches = << >>

\* chunk_text is applied to the text.
ChunkText ==
    /\ pc = "called"
    /\ request.fn = "chunk_text"
    /\ response' = [chunks |-> chunk_text(request.text, request.max_tokens)]
    /\ pc' = "chunked"
    /\ UNCHANGED <<conversation_state, request, gpt_response, query_embedding, ui,
                   knowledge_base, closest_matches>>

\* clean_numeric_fields is applied to the text.
CleanNumericFields ==
    /\ pc = "called"
    /\ request.fn = "clean_numeric_fields"
    /\ response' = [text |-> clean_numeric_fields(request.text)]
    /\ pc' = "cleaned"
    /\ UNCHANGED <<conversation_state, request, gpt_response, query_embedding, ui,
                   knowledge_base, closest_matches>>

SpecText == InitText /\ [][ChunkText \/ CleanNumericFields]_vars

(* ------------------------------------------------------------------ *)
(* Properties                                                          *)
(* ------------------------------------------------------------------ *)

\* The keys in which two dicts differ.
ChangedKeys(before, after) ==
    {k \in DOMAIN before \cup DOMAIN after :
        \/ k \notin DOMAIN before
        \/ k \notin DOMAIN after
        \/ before[k] # after[k]}

\* The model reply is malformed: no JSON, or JSON without one of the
\* required keys.
Malformed(gpt) ==
    \/ gpt.shape \in MalformedShapes
    \/ gpt.shape = "json_object" /\ gpt.absent \cap required_keys # {}

\* C1: a turn's response carries transition_to_qa = true only if all eight
\* required fields are present with non-empty values in the collected data
\* and the model reply of that turn carried confirmation_status = true.
C1_TransitionGated ==
    (/\ pc = "answered"
     /\ "transition_to_qa" \in DOMAIN response.body
     /\ response.body.transition_to_qa)
      => /\ \A f \in RequiredFieldSet :
               /\ f \in DOMAIN response.body.collected_data
               /\ Len(response.body.collected_data[f]) > 0
         /\ gpt_response.confirmation_status

\* C2: when find_closest_match returns an empty list, answer_query answers
\* with HTTP status 404 and with no other status.
C2_NotFoundIs404 ==
    (/\ pc = "query_answered"
     /\ response.embed_calls = 1
     /\ query_embedding.ok
     /\ closest_matches = << >>)
      => response.status_code = 404

\* C3 as claimed: when the model reply of a turn is malformed, the turn's
\* response has status "pending".
C3_MalformedIsPending ==
    (pc = "answered" /\ Malformed(gpt_response))
      => response.body.status = "pending"

\* C3 as amended: when the model reply of a turn is malformed, the turn is
\* answered with HTTP status 200 and a body of status "error" that returns
\* the request's collected data unchanged and carries no transition.
C3_MalformedIsError ==
    (pc = "answered" /\ Malformed(gpt_response))
      => /\ response.status_code = 200
         /\ response.body.status = "error"
         /\ response.body.collected_data = request.collected_data
         /\ "transition_to_qa" \notin DOMAIN response.body
         /\ ~conversation_state.in_qa_phase

\* A malformed reply arrived in a turn whose request carried collected data.
C3_Witness ==
    /\ pc = "answered"
    /\ Malformed(gpt_response)
    /\ DOMAIN request.collected_data # {}
    /\ response.body.status = "error"

\* The session id of a request is missing, empty or no valid UUID string.
BadSession(body) ==
    \/ "session_id" \notin DOMAIN body
    \/ body.session_id.t # "str"
    \/ Len(body.session_id.s) = 0
    \/ UUIDParse(body.session_id) # "ok"

\* C4: a collect_user_info request whose session_id is missing, empty or
\* no valid UUID string is answered with HTTP status 400.
C4_BadSessionIs400 ==
    (pc = "collect_answered" /\ BadSession(request))
      => response.status_code = 400

\* C5: an answer_query request in which user_info or question is missing
\* or empty is answered with HTTP status 400, and no embedding or
\* generation call is made for it.
C5_MissingQueryIs400 ==
    (/\ pc = "query_answered"
     /\ \/ DOMAIN Get(request, "user_info", << >>) = {}
        \/ Len(Get(request, "question", << >>)) = 0)
      => /\ response.status_code = 400
         /\ response.embed_calls = 0
         /\ response.gpt_calls = 0

\* C6: at both endpoints a failure raised while handling a request is
\* answered with an HTTP error status: never with a success status, and
\* never by an exception that leaves the handler.
C6_FailuresAnswered ==
    /\ (pc = "collect_answered" /\ gpt_response.shape = "api_error")
          => response.status_code >= 400
    /\ (pc = "query_answered" /\ response.embed_calls = 1 /\ ~query_embedding.ok)
          => response.status_code >= 400
    /\ pc \in {"collect_answered", "query_answered"} => ~response.unhandled

\* The cosine distance of q and v is at most 0.3: 1 - q.v / (|q| |v|) <= 3/10,
\* that is 10 q.v >= 7 |q| |v|.
DistanceAtMostThreshold(q, v) ==
    /\ Dot(q, q) > 0 /\ Dot(v, v) > 0
    /\ Dot(q, v) >= 0
    /\ 100 * Dot(q, v) * Dot(q, v) >= 49 * Dot(q, q) * Dot(v, v)

\* How often the chunk j of the file i occurs in the result.
Occurrences(i, j) ==
    Cardinality({k \in 1..Len(closest_matches) :
        /\ closest_matches[k].file = knowledge_base[i].file
        /\ closest_matches[k].chunk_id = knowledge_base[i].chunks[j].chunk_id})

\* C7: find_closest_match returns exactly the chunks within the threshold:
\* a chunk appears in the result if and only if its cosine distance to the
\* query is at most the threshold, each such chunk once, and nothing else.
C7_ExactlyWithinThreshold ==
    pc = "matched" =>
      /\ \A i \in 1..Len(knowledge_base) :
           \A j \in 1..Len(knowledge_base[i].chunks) :
              Occurrences(i, j) =
                 IF DistanceAtMostThreshold(query_embedding.vector,
                                            knowledge_base[i].chunks[j].embedding)
                 THEN 1 ELSE 0
      /\ \A k \in 1..Len(closest_matches) :
           \E i \in 1..Len(knowledge_base) :
              \E j \in 1..Len(knowledge_base[i].chunks) :
                 /\ closest_matches[k].file = knowledge_base[i].file
                 /\ closest_matches[k].chunk_id = knowledge_base[i].chunks[j].chunk_id
                 /\ closest_matches[k].content = knowledge_base[i].chunks[j].content

\* A query kept some chunks of the knowledge base and dropped others.
C7_Witness ==
    /\ pc = "matched"
    /\ Len(closest_matches) >= 2
    /\ \E i \in 1..Len(knowledge_base) :
          \E j \in 1..Len(knowledge_base[i].chunks) : Occurrences(i, j) = 0

\* The distance d1 is at most the distance d2: the cosine of d1 is at
\* least that of d2.
DistanceAtMost(d1, d2) ==
    IF d1.dot >= 0 /\ d2.dot >= 0
    THEN d1.dot * d1.dot * d2.nn >= d2.dot * d2.dot * d1.nn
    ELSE IF d1.dot < 0 /\ d2.dot < 0
    THEN d1.dot * d1.dot * d2.nn <= d2.dot * d2.dot * d1.nn
    ELSE d1.dot >= 0

\* C8: the list returned by find_closest_match is ordered by non-decreasing
\* distance: of two adjacent results the earlier is not farther.
C8_SortedByDistance ==
    pc = "matched" =>
      \A k \in 1..(Len(closest_matches) - 1) :
         DistanceAtMost(closest_matches[k].distance, closest_matches[k + 1].distance)

\* The scan met a closer chunk after a farther one, and the result has them
\* in the other order.
C8_Witness ==
    /\ pc = "matched"
    /\ Len(closest_matches) >= 2
    /\ closest_matches # ScanFiles(query_embedding.vector, knowledge_base)

\* C9: every required field present in the collected data, in the session
\* and in every response, holds a value that validate_field accepts for it.
C9_StoredValuesValid ==
    /\ \A f \in RequiredFieldSet \cap DOMAIN conversation_state.user_info :
          validate_field(f, conversation_state.user_info[f]) = NoError
    /\ pc = "answered" =>
          \A f \in RequiredFieldSet \cap DOMAIN response.body.collected_data :
             validate_field(f, response.body.collected_data[f]) = NoError

\* A padded value was offered for last_name and is held stripped, next to
\* other fields.
C9_Witness ==
    /\ pc = "answered"
    /\ gpt_response.field_to_update = "last_name"
    /\ gpt_response.value = JStr(S_Dan_padded)
    /\ "last_name" \in DOMAIN conversation_state.user_info
    /\ conversation_state.user_info["last_name"] = S_Dan
    /\ Cardinality(DOMAIN conversation_state.user_info) >= 3

\* C10: the collected data of a turn's response differs from that of its
\* request in at most one key, and only when the turn accepted a validated
\* value for that key.
C10_AtMostOneFieldChanges ==
    pc = "answered" =>
      LET changed == ChangedKeys(request.collected_data, response.body.collected_data)
          field   == ReplyGet(gpt_response, "field_to_update", PyNone)
          value   == ReplyGet(gpt_response, "value", JNull)
      IN  /\ Cardinality(changed) <= 1
          /\ changed # {} =>
                /\ gpt_response.shape = "json_object"
                /\ value.t = "str"
                /\ changed = {JsonKey(field)}
                /\ response.body.collected_data[JsonKey(field)] = Strip(value.s)
                /\ validate_field(field, Strip(value.s)) = NoError
                /\ response.body.status = "success"

\* A turn stored one field next to the fields the request already held.
C10_Witness ==
    /\ pc = "answered"
    /\ Cardinality(DOMAIN request.collected_data) >= 2
    /\ Cardinality(ChangedKeys(request.collected_data,
                               response.body.collected_data)) = 1

\* A decimal numeral: one or more decimal digits, with or without a sign.
IsNumeral(s) ==
    LET sign == IF Len(s) > 0 /\ s[1] \in {"+", "-"} THEN 1 ELSE 0
    IN  /\ Len(s) > sign
        /\ \A i \in (sign + 1)..Len(s) : s[i] \in DecimalDigits

\* C11: validate_field('age', v) returns no error exactly when v is a
\* decimal numeral denoting an integer between 0 and 120 inclusive; every
\* other value is rejected with an error message.
C11_AgeNumeralInRange ==
    (pc = "validated" /\ request.field_name = "age")
      => (response.result = NoError
            <=> /\ IsNumeral(request.value)
                /\ IntParse(request.value).n \in 0..120)

\* C12: validate_field accepts an id_number or hmo_card_number exactly when
\* it consists of nine digits 0-9.
C12_ExactlyNineDigits ==
    (pc = "validated" /\ request.field_name \in {"id_number", "hmo_card_number"})
      => (response.result = NoError
            <=> /\ Len(request.value) = 9
                /\ \A i \in 1..9 : request.value[i] \in Digits)

\* The enumerated names of a field, in lower case and in Hebrew.
EnumeratedNames(field_name) ==
    CASE field_name = "gender" ->
            {S_male, S_female, S_other, S_zakhar, S_nekeva, S_acher}
      [] field_name = "hmo_name" ->
            {S_maccabi, S_meuhedet, S_clalit, S_maccabi_he, S_meuhedet_he, S_clalit_he}
      [] field_name = "insurance_membership_tier" ->
            {S_gold, S_silver, S_bronze, S_zahav, S_kesef, S_arad}

\* The string spells the name, in whatever letter case.
Spells(s, name) ==
    /\ Len(s) = Len(name)
    /\ \A i \in 1..Len(s) : s[i] = name[i] \/ LowerChar(s[i]) = name[i]

\* C13: validate_field accepts for gender, hmo_name and
\* insurance_membership_tier no value that is not one of the field's
\* enumerated names: every other value is rejected with an error message.
C13_OnlyEnumeratedNames ==
    (/\ pc = "validated"
     /\ request.field_name \in {"gender", "hmo_name", "insurance_membership_tier"})
      => \/ \E name \in EnumeratedNames(request.field_name) :
               Spells(request.value, name)
         \/ response.result \notin {NoError, "AttributeError"}

\* A name of another field was offered and rejected.
C13_Witness ==
    /\ pc = "validated"
    /\ request.field_name = "insurance_membership_tier"
    /\ request.value = S_male
    /\ response.result = "Insurance membership tier must be gold, silver, or bronze."

\* What the session s observes: its state, the last response to it and
\* what its handler returned.
Observed(s) == <<conversation_state[s], response[s], ui[s]>>

\* C14: sessions are isolated.  In every step each session either observes
\* what it observed before, or the step is its own: its own submission, or
\* a reply to its own request, and then what it observes is what the
\* backend and the handler make of its own request, its own state and that
\* reply.
C14_SessionsIsolated ==
    [][\A s \in Sessions :
         \/ Observed(s)' = Observed(s)
         \/ /\ pc[s] \in {"idle", "answered"}
            /\ pc'[s] = "awaiting_model"
            /\ request'[s] = Payload(conversation_state[s])
            /\ conversation_state'[s] = conversation_state[s]
            /\ \A t \in Sessions \ {s} : Observed(t)' = Observed(t)
         \/ /\ pc[s] = "awaiting_model"
            /\ pc'[s] = "answered"
            /\ request[s] = Payload(conversation_state[s])
            /\ response'[s] = collect_user_info(request[s], gpt_response'[s])
            /\ conversation_state'[s] =
                  frontend_collect_user_info(conversation_state[s], response'[s]).state
            /\ ui'[s] =
                  frontend_collect_user_info(conversation_state[s], response'[s]).ui
            /\ \A t \in Sessions \ {s} : Observed(t)' = Observed(t)]_vars

\* The first session entered the Q&A phase while a request of the second,
\* which holds other data, was in flight.
C14_Witness ==
    /\ pc = [s \in Sessions |-> IF s = 1 THEN "answered" ELSE "awaiting_model"]
    /\ conversation_state[1].in_qa_phase
    /\ DOMAIN conversation_state[2].user_info = {"first_name"}
    /\ request[2].collected_data # request[1].collected_data

\* C15: validate_with_ground_truth(x, x) returns, for every record x, the
\* empty record included, a result with no mismatched fields, no missing
\* fields and completeness 100.
C15_SameRecordComplete ==
    (pc = "compared" /\ request.json_data = request.ground_truth)
      => /\ response.raised = "none"
         /\ DOMAIN response.mismatched_fields = {}
         /\ response.missing_fields = {}
         /\ response.completeness.num = 100 * response.completeness.den

\* Where the first "." of a path stands (past its end when it has none).
DotAt(path) ==
    IF \E i \in 1..Len(path) : path[i] = "."
    THEN CHOOSE i \in 1..Len(path) :
            path[i] = "." /\ \A j \in 1..(i - 1) : path[j] # "."
    ELSE Len(path) + 1

RECURSIVE Unflatten(_)
\* The nested record rebuilt from a flat mapping by splitting each path on
\* ".": the first part is a key of the record, the rest a path below it.
Unflatten(flat) ==
    LET Head1(path) == SubSeq(path, 1, DotAt(path) - 1)
        Rest(path)  == SubSeq(path, DotAt(path) + 1, Len(path))
        Below(key)  == {path \in DOMAIN flat :
                          Head1(path) = key /\ DotAt(path) <= Len(path)}
    IN  JDict([key \in {Head1(path) : path \in DOMAIN flat} |->
                 IF key \in DOMAIN flat /\ Below(key) = {} THEN flat[key]
                 ELSE Unflatten([rest \in {Rest(path) : path \in Below(key)} |->
                                   flat[key \o <<".">> \o rest]])])

RECURSIVE Leaves(_)
\* How many leaves a record holds.
Leaves(data) ==
    IF data.t # "dict" THEN 1
    ELSE IF DOMAIN data.d = {} THEN 0
    ELSE LET key == CHOOSE key \in DOMAIN data.d : TRUE
         IN  Leaves(data.d[key])
               + Leaves(JDict([k \in DOMAIN data.d \ {key} |-> data.d[k]]))

\* C16: flatten_json yields one dotted-path entry for every leaf of the
\* record, and rebuilding a nested record from the flat mapping by
\* splitting each path on "." gives back the record.
C16_FlattenRoundTrip ==
    pc = "flattened" =>
      /\ Cardinality(DOMAIN response.flat) = Leaves(request.json_data)
      /\ Unflatten(response.flat) = request.json_data

RECURSIVE LeafPaths(_, _)
\* The dotted paths of the leaves of a record, the quotes of the keys
\* written as double quotes.
LeafPaths(data, parent_key) ==
    UNION {LET key    == [i \in 1..Len(k) |->
                            IF k[i] \in {"gershayim", "'"} THEN "\"" ELSE k[i]]
               joined == IF Len(parent_key) > 0
                         THEN parent_key \o <<".">> \o key ELSE key
           IN  IF data.d[k].t = "dict" THEN LeafPaths(data.d[k], joined)
               ELSE {joined} : k \in DOMAIN data.d}

\* C17: for every pair of records with a non-empty reference,
\* missing_fields is the set of reference leaf paths that do not occur in
\* the extracted record, and completeness is 100 times the share of the
\* reference leaves that are present in the extracted record.
C17_MissingAndCompleteness ==
    (pc = "compared" /\ DOMAIN request.ground_truth.d # {})
      => LET reference == LeafPaths(request.ground_truth, << >>)
             extracted == LeafPaths(request.json_data, << >>)
         IN  /\ response.raised = "none"
             /\ response.missing_fields = reference \ extracted
             /\ response.completeness.num * Cardinality(reference) =
                   100 * Cardinality(reference \cap extracted)
                       * response.completeness.den

\* C18: every chunk returned by chunk_text(raw_text, max_tokens) contains
\* at most max_tokens whitespace-separated tokens.
C18_ChunksWithinMaxTokens ==
    pc = "chunked" =>
      \A k \in 1..Len(response.chunks) :
         TokenCount(response.chunks[k]) <= request.max_tokens

\* C19: in the output of clean_numeric_fields no digit is followed by one
\* or more of the characters | and l and then by a digit.
C19_NoSplitDigitsLeft ==
    pc = "cleaned" =>
      ~\E i \in 1..Len(response.text) : \E j \in (i + 2)..Len(response.text) :
          /\ response.text[i] \in DecimalDigits
          /\ response.text[j] \in DecimalDigits
          /\ \A m \in (i + 1)..(j - 1) : response.text[m] \in {"|", "l"}

\* C20: the session is in the Q&A phase (in_qa_phase true, Q&A panel
\* shown) only after a turn whose response has transition_to_qa = true and
\* after which user_info, the response's collected_data merged into it,
\* contains all eight required field names; after a turn whose response
\* has transition_to_qa = true while a required field is absent, the
\* session is in the collection phase and shows the missing-fields error.
C20_QaPhaseGated ==
    /\ (conversation_state.in_qa_phase \/ ui.qa_phase) =>
          /\ pc = "answered"
          /\ "transition_to_qa" \in DOMAIN response.body
          /\ response.body.transition_to_qa = TRUE
          /\ conversation_state.user_info =
                DictUpdate(request.collected_data, response.body.collected_data)
          /\ RequiredFieldSet \subseteq DOMAIN conversation_state.user_info
          /\ conversation_state.in_qa_phase /\ ui.qa_phase /\ ~ui.user_info_phase
    /\ (/\ pc = "answered"
        /\ "transition_to_qa" \in DOMAIN response.body
        /\ response.body.transition_to_qa = TRUE
        /\ ~(RequiredFieldSet \subseteq
               DOMAIN DictUpdate(request.collected_data, response.body.collected_data)))
          => /\ ~conversation_state.in_qa_phase
             /\ ui.user_info_phase /\ ~ui.qa_phase
             /\ ui.assistant_output = <<"Error: Missing fields detected">>

\* The turn that stored the eighth field carried the transition and the
\* session entered the Q&A phase.
C20_Witness ==
    /\ pc = "answered"
    /\ conversation_state.in_qa_phase
    /\ ui.qa_phase
    /\ Cardinality(DOMAIN request.collected_data) = 7
    /\ RequiredFieldSet \subseteq DOMAIN conversation_state.user_info

\* C21: every response body returned by the collect_user_info endpoint
\* contains the fields status, response, collected_data and
\* transition_to_qa, with status one of success, pending and error.
C21_DocumentedBody ==
    pc = "collect_answered" =>
      /\ {"status", "response", "collected_data", "transition_to_qa"}
            \subseteq DOMAIN response.body
      /\ response.body.status \in {"success", "pending", "error"}

\* C22: when a turn ends with status pending or error, the collected data
\* of the response is that of the request, the response carries no
\* transition, and the session holds what it held and stays in the
\* collection phase.
C22_RejectedTurnStoresNothing ==
    (/\ pc = "answered"
     /\ "status" \in DOMAIN response.body
     /\ response.body.status \in {"pending", "error"})
      => /\ response.body.collected_data = request.collected_data
         /\ ~Get(response.body, "transition_to_qa", FALSE)
         /\ conversation_state.user_info = request.collected_data
         /\ ~conversation_state.in_qa_phase

\* A value was rejected by the validator in a turn whose request held
\* fields, while the reply asked for the transition.
C22_Witness ==
    /\ pc = "answered"
    /\ response.body.status = "pending"
    /\ gpt_response.value = JStr(S_garbage)
    /\ gpt_response.transition_to_qa /\ gpt_response.confirmation_status
    /\ Cardinality(DOMAIN request.collected_data) >= 2

\* C23: the frontend handler returns six values on every return path, and
\* on the paths taken when the backend call raises or the body has no
\* collected_data the conversation state is returned unchanged.
C23_SixOutputs ==
    ui # NoOutputs =>
      /\ ui.n = 6
      /\ (response = Unreachable \/ "collected_data" \notin DOMAIN response.body)
            => conversation_state.user_info = request.collected_data

\* C25: every key of the collected data, in the session and in every
\* response, is one of the eight required field names.
C25_OnlyChecklistFields ==
    /\ DOMAIN conversation_state.user_info \subseteq RequiredFieldSet
    /\ (pc = "answered" /\ "collected_data" \in DOMAIN response.body)
          => DOMAIN response.body.collected_data \subseteq RequiredFieldSet

\* C24: with a cooperative model, every turn answered while a required
\* field is missing leaves one missing field fewer; a turn answered when
\* none is missing returns transition_to_qa = true and takes the session
\* to the Q&A phase; and the session eventually reaches the Q&A phase.
C24_CooperativeProgress ==
    /\ [][(pc = "awaiting_model" /\ pc' = "answered") =>
            IF missing_fields(request.collected_data) # {}
            THEN Cardinality(missing_fields(conversation_state'.user_info)) =
                    Cardinality(missing_fields(conversation_state.user_info)) - 1
            ELSE /\ response'.body.transition_to_qa = TRUE
                 /\ conversation_state'.in_qa_phase]_vars
    /\ <>conversation_state.in_qa_phase

\* The eight fields were collected and the confirming turn, which carried
\* no value, took the session to the Q&A phase.
C24_Witness ==
    /\ pc = "answered"
    /\ conversation_state.in_qa_phase
    /\ "value" \in gpt_response.absent
    /\ missing_fields(request.collected_data) = {}
    /\ response.body.transition_to_qa = TRUE

\* C26: a reference field that is not reported as mismatched, that is,
\* one counted as correct, is present in the extracted record, so that no
\* missing field is counted as correct and the accuracy is at most the
\* completeness.
C26_CorrectOnlyIfPresent ==
    (pc = "compared" /\ response.raised = "none")
      => LET reference == LeafPaths(request.ground_truth, << >>)
             correct   == reference \ DOMAIN response.mismatched_fields
         IN  /\ correct \cap response.missing_fields = {}
             /\ response.accuracy.num * response.completeness.den <=
                   response.completeness.num * response.accuracy.den

\* C27: validate_dynamic_data returns a result for every record whose
\* leaves are strings, and a date part, an ID or a phone value that is not
\* empty and is not made of digits is reported in invalid_fields.
C27_MalformedReportedNeverRaised ==
    pc = "checked"
      => /\ response.raised = "none"
         /\ LET record == request.json_data.d
                 Parts  == IF FieldNames.date \in DOMAIN record
                           THEN record[FieldNames.date].d ELSE << >>
                 NotDigits(v) == Len(v.s) > 0 /\ ~isdigit(v.s)
             IN  /\ \A part \in DOMAIN Parts :
                       NotDigits(Parts[part]) =>
                          (FieldNames.date \o <<".">> \o part)
                             \in DOMAIN response.invalid_fields
                 /\ \A field \in DOMAIN record \cap {FieldNames.id, FieldNames.phone} :
                       NotDigits(record[field]) =>
                          field \in DOMAIN response.invalid_fields

====
